---- MODULE Spec2Model ----
(***************************************************************************)
(* qaspen-psycopg: PsycopgEngine and PsycopgTransaction                    *)
(* (src/qaspen_psycopg/engine.py) as a state machine.                      *)
(*                                                                         *)
(* Every logical context (an asyncio task with its own contextvars         *)
(* Context) runs user code that calls the engine and its transactions.     *)
(* A handler runs atomically from one `await` of a driver or pool call to  *)
(* the next; pc[c] names the await the context is suspended on.  Every     *)
(* such await may complete, raise a driver error, or raise CancelledError. *)
(***************************************************************************)
EXTENDS Integers, FiniteSets, Sequences, TLC

\* ---- bounds of the model ----
NConn == 2       \* connections the pool holds
MaxOps == 3      \* events of a run: scopes entered, calls made, awaits that raise

Ctx == {"A", "B"}
Conns == 1..NConn
Txns == 1..MaxOps
None == 0

\* close_connection_pool_timeout as given to PsycopgEngine(...): not given
\* (None), zero, or positive.
Unset == -1
Timeouts == {Unset, 0, 5}
DefaultCloseTimeout == 30

VARIABLES
    connection_pool,        \* engine._connection_pool: None or the id of a pool
    nPools,                 \* AsyncConnectionPool objects constructed so far
    poolState,              \* "none" | "new" (constructed) | "open" | "closed"
    handed,                 \* pool ids handed to callers of connection_pool / create_connection_pool
    free,                   \* connections idle in the pool
    running,                \* engine.running_transaction, per context
    nTxn,                   \* PsycopgTransaction objects created so far
    connection,             \* txn._connection
    is_rollback_executed,   \* txn._is_rollback_executed
    is_commit_executed,     \* txn._is_commit_executed
    context,                \* txn.context: the token of running_transaction.set()
    life,                   \* per context: "unborn" | "run" | "done"
    stack,                  \* per context: the open `async with` scopes, innermost last
    ops,                    \* events so far: scopes entered, calls made, awaits that raised
    pc,                     \* per context: "idle", "unwind", or the await it is suspended on
    exc,                    \* per context: the exception propagating in user code
    fr,                     \* per context: the current (or last) handler invocation
    scope,                  \* per transaction: history of its scope (observation only)
    inherited,              \* per context: running_transaction copied at task creation
    close_connection_pool_timeout,  \* engine.close_connection_pool_timeout
    closeTimeout,           \* the timeout given to pool.close(), Unset before any close
    hist                    \* per transaction object: who made it, and what it did (observation only)

vars == <<connection_pool, nPools, poolState, handed, free, running, nTxn,
          connection, is_rollback_executed, is_commit_executed, context,
          life, stack, ops, pc, exc, fr, scope, inherited,
          close_connection_pool_timeout, closeTimeout, hist>>

cfgVars == <<close_connection_pool_timeout, closeTimeout>>
poolVars == <<connection_pool, nPools, poolState, handed>>
txnVars == <<connection, is_rollback_executed, is_commit_executed, context>>

NoToken == [ctx |-> "-", old |-> None]

\* A handler invocation: op is the handler, t the transaction it acts on, k its
\* connection, out how it ended ("run" while it has not); rows: fetchall ran,
\* so the result is a list of rows and not None; pstate: the state of the pool
\* when it was handed to the handler ("-": no pool handed).
NoFrame ==
    [op |-> "none", t |-> None, k |-> None, fetch |-> FALSE, inpool |-> FALSE,
     e |-> "none", got |-> FALSE, put |-> FALSE, commits |-> 0, alone |-> FALSE,
     reg |-> None, warned |-> FALSE, rows |-> FALSE, pstate |-> "-", out |-> "ret"]

Frame(o, t, k) == [NoFrame EXCEPT !.op = o, !.t = t, !.k = k, !.out = "run"]

\* What happened in the scope of a transaction: owner entered it with pre
\* registered; explicit: commit()/rollback() called in the body; nCommit and
\* nRollback: commits and rollbacks issued on its connection; stmts: statements
\* run on it; exitArg: the exception given to __aexit__; exitOut: how __aexit__
\* ended; returned / restored: putconn and the reset of the registration ran.
NoScope ==
    [owner |-> "-", pre |-> None, explicit |-> FALSE, stmts |-> 0,
     nCommit |-> 0, nRollback |-> 0, exitArg |-> "-", exitOut |-> "-",
     returned |-> FALSE, restored |-> FALSE]

\* The life of a transaction object: maker is the context whose user code
\* called engine.transaction(); gets / puts: connections it borrowed from and
\* returned to the pool; enters: scope entries completed.
NoHist == [maker |-> "-", gets |-> 0, puts |-> 0, enters |-> 0]

\* The state after PsycopgEngine(connection_url, close_connection_pool_timeout=x)
\* for an x of timeouts.
InitEngine(timeouts) ==
    /\ connection_pool = None
    /\ nPools = 0
    /\ poolState = "none"
    /\ handed = {}
    /\ free = Conns
    /\ running = [c \in Ctx |-> None]
    /\ nTxn = 0
    /\ connection = [t \in Txns |-> None]
    /\ is_rollback_executed = [t \in Txns |-> FALSE]
    /\ is_commit_executed = [t \in Txns |-> FALSE]
    /\ context = [t \in Txns |-> NoToken]
    /\ life = [c \in Ctx |-> IF c = "A" THEN "run" ELSE "unborn"]
    /\ stack = [c \in Ctx |-> <<>>]
    /\ ops = 0
    /\ pc = [c \in Ctx |-> "idle"]
    /\ exc = [c \in Ctx |-> "none"]
    /\ fr = [c \in Ctx |-> NoFrame]
    /\ scope = [t \in Txns |-> NoScope]
    /\ inherited = [c \in Ctx |-> None]
    /\ close_connection_pool_timeout \in timeouts
    /\ closeTimeout = Unset
    /\ hist = [t \in Txns |-> NoHist]

\* PsycopgEngine(connection_url): no timeout configured.
Init == InitEngine({Unset})

Top(c) == stack[c][Len(stack[c])]
Pop(s) == SubSeq(s, 1, Len(s) - 1)

\* User code of context c is running and may make a call.
Idle(c) == life[c] = "run" /\ pc[c] = "idle"
CanCall(c) == Idle(c) /\ ops < MaxOps

\* A handler returns to the user code of c: after __aexit__ was given an
\* exception and returned None, that exception goes on propagating.
Return(c, f) ==
    /\ pc' = [pc EXCEPT ![c] = IF f.op = "exit" /\ exc[c] # "none" THEN "unwind" ELSE "idle"]
    /\ fr' = [fr EXCEPT ![c] = [f EXCEPT !.out = "ret"]]

\* What a handler does once it holds the pool: borrow a connection
\* (retrieve_connection, Engine.execute), return one (__aexit__), or return.
Resume(c, f) ==
    CASE f.op \in {"enter", "texec", "dexec", "eexec"} ->
            /\ pc' = [pc EXCEPT ![c] = "getconn"]
            /\ fr' = [fr EXCEPT ![c] = f]
      [] f.op = "exit" ->
            /\ pc' = [pc EXCEPT ![c] = "putconn"]
            /\ fr' = [fr EXCEPT ![c] = [f EXCEPT !.k = connection[f.t]]]
      [] OTHER -> Return(c, f)

\* The caller is handed the pool the engine holds.
GotPool(c, f) ==
    /\ handed' = handed \cup {connection_pool}
    /\ UNCHANGED <<connection_pool, nPools, poolState>>
    /\ Resume(c, [f EXCEPT !.pstate = poolState])

\* create_connection_pool, line 338: `if not self._connection_pool`.
NoPoolGuardDropped == TRUE
NoPoolYet == connection_pool = None

\* create_connection_pool up to `await self._connection_pool.open(...)`: the
\* pool is constructed and stored before the await.
CreateConnectionPool(c, f) ==
    IF NoPoolYet
    THEN /\ nPools' = nPools + 1
         /\ connection_pool' = nPools + 1
         /\ poolState' = "new"
         /\ pc' = [pc EXCEPT ![c] = "open"]
         /\ fr' = [fr EXCEPT ![c] = f]
         /\ UNCHANGED handed
    ELSE GotPool(c, f)

\* The connection_pool property.
ConnectionPool(c, f) ==
    IF connection_pool = None THEN CreateConnectionPool(c, f) ELSE GotPool(c, f)

\* open() completed: create_connection_pool returns self._connection_pool.
\* A pool closed while it was being opened stays closed.
OpenDone(c) ==
    /\ pc[c] = "open"
    /\ poolState' = IF poolState = "new" THEN "open" ELSE poolState
    /\ handed' = handed \cup {connection_pool}
    /\ Resume(c, [fr[c] EXCEPT !.pstate = poolState'])
    /\ UNCHANGED <<connection_pool, nPools, free, running, nTxn, txnVars, life,
                   stack, ops, exc, scope, inherited, cfgVars, hist>>

\* __aexit__, lines 91-100: which of rollback, commit or nothing runs.
ExitBranchIgnoresFlags(e, committed, rolledback) ==
    IF e # "none" THEN "rollback" ELSE "commit"
ExitBranch(e, committed, rolledback) ==
    IF e # "none" /\ ~rolledback THEN "rollback"
    ELSE IF e = "none" /\ ~committed /\ ~rolledback THEN "commit"
    ELSE "nothing"

\* __aexit__(exception) on the innermost scope of c, to its first await.
AExit(c, e) ==
    LET t == Top(c)
        f == [Frame("exit", t, connection[t]) EXCEPT !.e = e]
        br == ExitBranch(e, is_commit_executed[t], is_rollback_executed[t])
    IN  /\ stack' = [stack EXCEPT ![c] = Pop(@)]
        /\ CASE br = "rollback" ->
                   /\ pc' = [pc EXCEPT ![c] = "rollback"]
                   /\ fr' = [fr EXCEPT ![c] = f]
                   /\ scope' = [scope EXCEPT ![t].exitArg = e, ![t].exitOut = "run",
                                             ![t].nRollback = @ + 1]
                   /\ UNCHANGED poolVars
             [] br = "commit" ->
                   /\ pc' = [pc EXCEPT ![c] = "commit"]
                   /\ fr' = [fr EXCEPT ![c] = f]
                   /\ scope' = [scope EXCEPT ![t].exitArg = e, ![t].exitOut = "run",
                                             ![t].nCommit = @ + 1]
                   /\ UNCHANGED poolVars
             [] OTHER ->
                   /\ scope' = [scope EXCEPT ![t].exitArg = e, ![t].exitOut = "run"]
                   /\ ConnectionPool(c, f)

\* `async with engine.transaction():` engine.transaction() makes a new
\* PsycopgTransaction and __aenter__ runs to `await self.retrieve_connection()`.
EnterScope(c) ==
    /\ CanCall(c)
    /\ ops' = ops + 1
    /\ nTxn' = nTxn + 1
    /\ hist' = [hist EXCEPT ![nTxn + 1].maker = c]
    /\ ConnectionPool(c, Frame("enter", nTxn + 1, None))
    /\ UNCHANGED <<free, running, txnVars, life, stack, exc, scope, inherited, cfgVars>>

\* t is a transaction object the user code of c made and kept, and it is not
\* in a scope now: its scope has ended, or it was never entered.
Kept(c, t) ==
    /\ hist[t].maker = c
    /\ scope[t].owner = "-" \/ scope[t].exitOut \in {"ret", "error", "cancel"}

\* `async with t:` on a transaction object the user code kept: __aenter__
\* tests nothing (lines 62-75), it borrows a connection and registers t
\* (again); the flags and _connection keep their values until then.
ReenterScope(c, t) ==
    /\ CanCall(c)
    /\ Kept(c, t)
    /\ ops' = ops + 1
    /\ ConnectionPool(c, Frame("enter", t, None))
    /\ UNCHANGED <<free, running, nTxn, txnVars, life, stack, exc, scope, inherited, cfgVars, hist>>

\* The body of the innermost scope ends without an exception.
ExitScope(c) ==
    /\ Idle(c)
    /\ stack[c] # <<>>
    /\ AExit(c, "none")
    /\ UNCHANGED <<free, running, nTxn, txnVars, life, ops, exc, inherited, cfgVars, hist>>

\* The body of the innermost scope raises.
BodyRaise(c) ==
    /\ Idle(c)
    /\ stack[c] # <<>>
    /\ pc' = [pc EXCEPT ![c] = "unwind"]
    /\ exc' = [exc EXCEPT ![c] = "error"]
    /\ UNCHANGED <<poolVars, free, running, nTxn, txnVars, life, stack, ops,
                   fr, scope, inherited, cfgVars, hist>>

\* An exception propagates in the user code of c: out of the innermost scope
\* through its __aexit__, or out of the task.
Unwind(c) ==
    /\ life[c] = "run"
    /\ pc[c] = "unwind"
    /\ IF stack[c] # <<>>
       THEN /\ AExit(c, exc[c])
            /\ UNCHANGED life
       ELSE /\ life' = [life EXCEPT ![c] = "done"]
            /\ pc' = [pc EXCEPT ![c] = "idle"]
            /\ UNCHANGED <<poolVars, stack, fr, scope>>
    /\ UNCHANGED <<free, running, nTxn, txnVars, ops, exc, inherited, cfgVars, hist>>

\* PsycopgTransaction.execute, lines 143-155, to its first await.
TransactionExecute(c, f) ==
    IF connection[f.t] = None
    THEN ConnectionPool(c, f)
    ELSE /\ pc' = [pc EXCEPT ![c] = "cexec"]
         /\ fr' = [fr EXCEPT ![c] = [f EXCEPT !.k = connection[f.t]]]
         /\ UNCHANGED poolVars

\* self.running_transaction.get() in context c (line 288): the ContextVar
\* holds one value per context.
RunningTransactionShared(c) == running["A"]
RunningTransaction(c) == running[c]

\* PsycopgEngine.execute, lines 288, 294, 309: the branch taken.
RoutePoolFirst(running_transaction, in_pool) ==
    IF in_pool THEN "pool"
    ELSE IF running_transaction # None THEN "transaction"
    ELSE "standalone"
Route(running_transaction, in_pool) ==
    IF running_transaction # None THEN "transaction"
    ELSE IF in_pool THEN "pool"
    ELSE "standalone"

\* PsycopgEngine.execute, lines 287-322, to its first await.
EngineExecute(c, in_pool, fetch_results) ==
    /\ CanCall(c)
    /\ ops' = ops + 1
    /\ LET running_transaction == RunningTransaction(c)
           f == [NoFrame EXCEPT !.out = "run", !.inpool = in_pool,
                                !.fetch = fetch_results, !.reg = running_transaction]
           branch == Route(running_transaction, in_pool)
       IN  CASE branch = "transaction" ->
                   TransactionExecute(c, [f EXCEPT !.op = "texec", !.t = running_transaction])
             [] branch = "pool" ->
                   ConnectionPool(c, [f EXCEPT !.op = "eexec"])
             [] OTHER ->
                   /\ pc' = [pc EXCEPT ![c] = "connect"]
                   /\ fr' = [fr EXCEPT ![c] = [f EXCEPT !.op = "alone"]]
                   /\ UNCHANGED poolVars
    /\ UNCHANGED <<free, running, nTxn, txnVars, life, stack, exc, scope, inherited, cfgVars, hist>>

\* `await t.execute(querystring)` (fetch_results is True by default, line 134)
\* written in user code, on a
\* transaction object that is in no scope: a new one (engine.transaction()) or
\* one the user code kept.  (In its own scope the call is what Engine.execute
\* delegates to.)
DirectExecute(c, t) ==
    /\ CanCall(c)
    /\ \/ t = nTxn + 1 /\ nTxn' = nTxn + 1 /\ hist' = [hist EXCEPT ![t].maker = c]
       \/ Kept(c, t) /\ UNCHANGED <<nTxn, hist>>
    /\ ops' = ops + 1
    /\ TransactionExecute(c, [Frame("dexec", t, None) EXCEPT !.fetch = TRUE])
    /\ UNCHANGED <<free, running, txnVars, life, stack, exc, scope, inherited, cfgVars>>

\* `await txn.commit()` written in the body of the innermost scope.
Commit(c) ==
    /\ CanCall(c)
    /\ stack[c] # <<>>
    /\ ops' = ops + 1
    /\ pc' = [pc EXCEPT ![c] = "commit"]
    /\ fr' = [fr EXCEPT ![c] = Frame("commit", Top(c), connection[Top(c)])]
    /\ scope' = [scope EXCEPT ![Top(c)].explicit = TRUE, ![Top(c)].nCommit = @ + 1]
    /\ UNCHANGED <<poolVars, free, running, nTxn, txnVars, life, stack, exc, inherited, cfgVars, hist>>

\* `await txn.rollback()` written in the body of the innermost scope.
Rollback(c) ==
    /\ CanCall(c)
    /\ stack[c] # <<>>
    /\ ops' = ops + 1
    /\ pc' = [pc EXCEPT ![c] = "rollback"]
    /\ fr' = [fr EXCEPT ![c] = Frame("rollback", Top(c), connection[Top(c)])]
    /\ scope' = [scope EXCEPT ![Top(c)].explicit = TRUE, ![Top(c)].nRollback = @ + 1]
    /\ UNCHANGED <<poolVars, free, running, nTxn, txnVars, life, stack, exc, inherited, cfgVars, hist>>

\* `await engine.create_connection_pool()` in user code.
CreatePool(c) ==
    /\ CanCall(c)
    /\ ops' = ops + 1
    /\ CreateConnectionPool(c, Frame("create", None, None))
    /\ UNCHANGED <<free, running, nTxn, txnVars, life, stack, exc, scope, inherited, cfgVars, hist>>

\* `x or default` of Python: None and 0 are both false.
OrDefault(x, default) == IF x = Unset \/ x = 0 THEN default ELSE x

\* `await engine.stop_connection_pool()` in user code, lines 357-366, to its
\* await: with no pool it warns and returns.
StopConnectionPool(c) ==
    /\ CanCall(c)
    /\ ops' = ops + 1
    /\ IF connection_pool = None
       THEN /\ Return(c, [Frame("stop", None, None) EXCEPT !.warned = TRUE])
            /\ UNCHANGED closeTimeout
       ELSE /\ pc' = [pc EXCEPT ![c] = "close"]
            /\ fr' = [fr EXCEPT ![c] = Frame("stop", None, None)]
            /\ closeTimeout' = OrDefault(close_connection_pool_timeout, DefaultCloseTimeout)
    /\ UNCHANGED <<poolVars, free, running, nTxn, txnVars, life, stack, exc, scope,
                   inherited, close_connection_pool_timeout, hist>>

\* `await self._connection_pool.close(timeout=...)` completed; the engine keeps
\* the closed pool in _connection_pool.
CloseDone(c) ==
    /\ pc[c] = "close"
    /\ poolState' = "closed"
    /\ Return(c, fr[c])
    /\ UNCHANGED <<connection_pool, nPools, handed, free, running, nTxn, txnVars,
                   life, stack, ops, exc, scope, inherited, cfgVars, hist>>

\* asyncio.create_task in the user code of c: the new task d runs in a copy of
\* the context of c, so it starts with c's value of running_transaction.
Spawn(c, d) ==
    /\ Idle(c)
    /\ life[d] = "unborn"
    /\ life' = [life EXCEPT ![d] = "run"]
    /\ running' = [running EXCEPT ![d] = running[c]]
    /\ inherited' = [inherited EXCEPT ![d] = running[c]]
    /\ UNCHANGED <<poolVars, free, nTxn, txnVars, stack, ops, pc, exc, fr, scope,
                   cfgVars, hist>>

\* The connection the pool lends: connections are interchangeable, the least
\* idle one stands for whichever the pool picks.
Lend(idle) == CHOOSE k \in idle : \A j \in idle : k <= j

\* `await pool.getconn()` completed: the pool lends an idle connection.  It
\* lends none before it is open or while all are out (the caller waits).
GetConnDone(c) ==
    /\ pc[c] = "getconn"
    /\ poolState = "open"
    /\ free # {}
    /\ LET k == Lend(free)
           f == [fr[c] EXCEPT !.k = k, !.got = TRUE]
           t == f.t
       IN   /\ free' = free \ {k}
            /\ IF f.op = "enter"
               THEN \* __aenter__, lines 70-75
                    /\ connection' = [connection EXCEPT ![t] = k]
                    /\ context' = [context EXCEPT ![t] = [ctx |-> c, old |-> running[c]]]
                    /\ running' = [running EXCEPT ![c] = t]
                    /\ stack' = [stack EXCEPT ![c] = Append(@, t)]
                    /\ scope' = [scope EXCEPT ![t] =
                                    [NoScope EXCEPT !.owner = c, !.pre = running[c]]]
                    /\ Return(c, f)
               ELSE \* Transaction.execute, lines 146-152; Engine.execute, 296-300
                    /\ connection' = IF f.op \in {"texec", "dexec"}
                                     THEN [connection EXCEPT ![t] = k] ELSE connection
                    /\ pc' = [pc EXCEPT ![c] = "cexec"]
                    /\ fr' = [fr EXCEPT ![c] = f]
                    /\ UNCHANGED <<context, running, stack, scope>>
            /\ hist' = IF t = None THEN hist
                       ELSE [hist EXCEPT ![t].gets = @ + 1,
                                         ![t].enters = IF f.op = "enter" THEN @ + 1 ELSE @]
    /\ UNCHANGED <<poolVars, nTxn, is_rollback_executed, is_commit_executed, life,
                   ops, exc, inherited, cfgVars>>

\* `await pool.getconn()` on a closed pool raises PoolClosed.
GetConnClosed(c) ==
    /\ pc[c] = "getconn"
    /\ poolState = "closed"
    /\ pc' = [pc EXCEPT ![c] = "unwind"]
    /\ exc' = [exc EXCEPT ![c] = "error"]
    /\ fr' = [fr EXCEPT ![c].out = "error"]
    /\ UNCHANGED <<poolVars, free, running, nTxn, txnVars, life, stack, ops, scope,
                   inherited, cfgVars, hist>>

\* `await AsyncConnection.connect(...)` completed (Engine.connection).
ConnectDone(c) ==
    /\ pc[c] = "connect"
    /\ pc' = [pc EXCEPT ![c] = "cexec"]
    /\ fr' = [fr EXCEPT ![c].alone = TRUE]
    /\ UNCHANGED <<poolVars, free, running, nTxn, txnVars, life, stack, ops, exc,
                   scope, inherited, cfgVars, hist>>

\* After the rows: Transaction.execute returns; Engine.execute commits.
AfterRows(c, f) ==
    IF f.op \in {"texec", "dexec"}
    THEN Return(c, f)
    ELSE /\ pc' = [pc EXCEPT ![c] = "commit"]
         /\ fr' = [fr EXCEPT ![c] = f]

\* `await cursor.execute(querystring)` completed.
CursorExecuteDone(c) ==
    /\ pc[c] = "cexec"
    /\ IF fr[c].fetch
       THEN /\ pc' = [pc EXCEPT ![c] = "fetch"]
            /\ UNCHANGED fr
       ELSE AfterRows(c, fr[c])
    /\ scope' = IF fr[c].op = "texec"
                THEN [scope EXCEPT ![fr[c].t].stmts = @ + 1]
                ELSE scope
    /\ UNCHANGED <<poolVars, free, running, nTxn, txnVars, life, stack, ops, exc,
                   inherited, cfgVars, hist>>

\* `await cursor.fetchall()` completed.
FetchDone(c) ==
    /\ pc[c] = "fetch"
    /\ AfterRows(c, [fr[c] EXCEPT !.rows = TRUE])
    /\ UNCHANGED <<poolVars, free, running, nTxn, txnVars, life, stack, ops, exc,
                   scope, inherited, cfgVars, hist>>

\* `await connection.commit()` completed: in PsycopgTransaction.commit
\* (lines 184-185, called by user code or by __aexit__) or in Engine.execute
\* (lines 306-307, 320).
CommitDone(c) ==
    /\ pc[c] = "commit"
    /\ LET f == fr[c] IN
       CASE f.op = "commit" ->
               /\ is_commit_executed' = [is_commit_executed EXCEPT ![f.t] = TRUE]
               /\ Return(c, f)
               /\ UNCHANGED poolVars
         [] f.op = "exit" ->
               /\ is_commit_executed' = [is_commit_executed EXCEPT ![f.t] = TRUE]
               /\ ConnectionPool(c, f)
         [] f.op = "eexec" ->
               /\ pc' = [pc EXCEPT ![c] = "putconn"]
               /\ fr' = [fr EXCEPT ![c].commits = @ + 1]
               /\ UNCHANGED <<is_commit_executed, poolVars>>
         [] OTHER ->
               /\ Return(c, [f EXCEPT !.commits = @ + 1])
               /\ UNCHANGED <<is_commit_executed, poolVars>>
    /\ UNCHANGED <<free, running, nTxn, connection, is_rollback_executed, context,
                   life, stack, ops, exc, scope, inherited, cfgVars, hist>>

\* `await self._connection.rollback()` completed (lines 176-177).
RollbackDone(c) ==
    /\ pc[c] = "rollback"
    /\ is_rollback_executed' = [is_rollback_executed EXCEPT ![fr[c].t] = TRUE]
    /\ IF fr[c].op = "exit"
       THEN ConnectionPool(c, fr[c])
       ELSE Return(c, fr[c]) /\ UNCHANGED poolVars
    /\ UNCHANGED <<free, running, nTxn, connection, is_commit_executed, context,
                   life, stack, ops, exc, scope, inherited, cfgVars, hist>>

\* `await conn_pool.putconn(...)` completed (a closed pool closes the
\* connection it is given back): __aexit__ then resets the context variable
\* with its token (line 105); Engine.execute returns the rows.
PutConnDone(c) ==
    /\ pc[c] = "putconn"
    /\ LET f == fr[c]
           t == f.t
       IN  /\ free' = IF poolState = "closed" THEN free ELSE free \cup ({f.k} \ {None})
           /\ IF f.op = "exit"
              THEN /\ running' = [running EXCEPT ![c] = context[t].old]
                   /\ scope' = [scope EXCEPT ![t].returned = TRUE, ![t].restored = TRUE,
                                             ![t].exitOut = "ret"]
              ELSE UNCHANGED <<running, scope>>
           /\ hist' = IF f.op = "exit" THEN [hist EXCEPT ![t].puts = @ + 1] ELSE hist
           /\ Return(c, [f EXCEPT !.put = TRUE])
    /\ UNCHANGED <<poolVars, nTxn, txnVars, life, stack, ops, exc, inherited, cfgVars>>

Suspended == {"open", "getconn", "connect", "cexec", "fetch", "commit", "rollback",
              "putconn", "close"}

\* The await c is suspended on raises: the driver or the pool fails (kind
\* "error") or the task is cancelled (kind "cancel", CancelledError).  No
\* handler catches anything, so the exception leaves the handler.
AwaitRaise(c, kind) ==
    /\ pc[c] \in Suspended
    /\ ops < MaxOps
    /\ ops' = ops + 1
    /\ pc' = [pc EXCEPT ![c] = "unwind"]
    /\ exc' = [exc EXCEPT ![c] = kind]
    /\ fr' = [fr EXCEPT ![c].out = kind]
    /\ scope' = IF fr[c].op = "exit"
                THEN [scope EXCEPT ![fr[c].t].exitOut = kind]
                ELSE scope
    /\ UNCHANGED <<poolVars, free, running, nTxn, txnVars, life, stack, inherited, cfgVars, hist>>

Next ==
    \E c \in Ctx :
        \/ EnterScope(c)
        \/ \E t \in Txns : ReenterScope(c, t)
        \/ ExitScope(c)
        \/ BodyRaise(c)
        \/ Unwind(c)
        \/ \E in_pool, fetch_results \in BOOLEAN : EngineExecute(c, in_pool, fetch_results)
        \/ \E t \in Txns : DirectExecute(c, t)
        \/ Commit(c)
        \/ Rollback(c)
        \/ CreatePool(c)
        \/ StopConnectionPool(c)
        \/ CloseDone(c)
        \/ GetConnClosed(c)
        \/ \E d \in Ctx : Spawn(c, d)
        \/ OpenDone(c)
        \/ GetConnDone(c)
        \/ ConnectDone(c)
        \/ CursorExecuteDone(c)
        \/ FetchDone(c)
        \/ CommitDone(c)
        \/ RollbackDone(c)
        \/ PutConnDone(c)
        \/ \E kind \in {"error", "cancel"} : AwaitRaise(c, kind)

Spec == Init /\ [][Next]_vars

\* The engine constructed with any close_connection_pool_timeout.
InitAnyTimeout == InitEngine(Timeouts)
SpecAnyTimeout == InitAnyTimeout /\ [][Next]_vars

(***************************************************************************)
(* The claims.                                                             *)
(***************************************************************************)
ExitBegun(t) == scope[t].exitOut # "-"
ExitEnded(t) == scope[t].exitOut \in {"ret", "error", "cancel"}
\* t is registered and its scope has not ended.
InScope(t) == scope[t].owner # "-" /\ ~ExitEnded(t)

\* C1: a scope that exits by a propagating exception, with no explicit
\* commit()/rollback() in its body, has issued exactly one rollback and no
\* commit, its connection is back in the pool and the registration of its
\* context is restored, once __aexit__ has ended.
C1_ExceptionExitRollsBackAndReleases ==
    \A t \in Txns :
        (scope[t].exitArg \in {"error", "cancel"} /\ ~scope[t].explicit /\ ExitEnded(t))
            => /\ scope[t].nRollback = 1
               /\ scope[t].nCommit = 0
               /\ scope[t].returned
               /\ scope[t].restored

\* C2: a scope that exits normally, with no explicit commit()/rollback() in its
\* body, issues exactly one commit and no rollback on its connection, however
\* many statements ran in it.
C2_NormalExitCommitsOnce ==
    \A t \in Txns :
        (scope[t].exitArg = "none" /\ ~scope[t].explicit /\ ExitBegun(t))
            => scope[t].nCommit = 1 /\ scope[t].nRollback = 0

\* C3: a pooled Engine.execute that borrowed a connection has returned it to
\* the pool when it ends, by returning or by raising.
C3_PooledExecuteAlwaysReturnsConnection ==
    \A c \in Ctx :
        (fr[c].op = "eexec" /\ fr[c].got /\ fr[c].out \in {"ret", "error"})
            => fr[c].put

\* C4: of the commit() and rollback() calls made in the body of one scope only
\* the first issues anything on the connection.
C4_SecondCallIsNoOp ==
    \A t \in Txns :
        ~ExitBegun(t) => scope[t].nCommit + scope[t].nRollback <= 1

\* C5: the flags _is_commit_executed and _is_rollback_executed of a transaction
\* are never both true, and a flag that is true stays true.
C5_FlagsExclusive ==
    /\ [](\A t \in Txns : ~(is_commit_executed[t] /\ is_rollback_executed[t]))
    /\ [][\A t \in Txns :
            /\ is_commit_executed[t] => is_commit_executed'[t]
            /\ is_rollback_executed[t] => is_rollback_executed'[t]]_vars

\* C6 as stated: while a transaction is active in one context, no other
\* context reads it as its running transaction.
C6_NoOtherContextSeesTransaction ==
    \A c \in Ctx, t \in Txns :
        (InScope(t) /\ scope[t].owner # c /\ life[c] # "unborn") => RunningTransaction(c) # t

\* While t is active in another context, context c neither reads t as its
\* running transaction nor has an Engine.execute routed into t or run on the
\* connection t holds.
Isolated(c, t) ==
    /\ RunningTransaction(c) # t
    /\ (fr[c].op \in {"texec", "eexec", "alone"} /\ fr[c].out = "run")
            => (fr[c].reg # t /\ fr[c].t # t /\ fr[c].k # connection[t])

\* The registration of c changes only in c's own scope entry and scope exit
\* (and is set when the task is created).
OwnRegistrationOnly ==
    \A c \in Ctx :
        running'[c] # running[c]
            => \/ life[c] = "unborn"
               \/ pc[c] = "getconn" /\ fr[c].op = "enter"
               \/ pc[c] = "putconn" /\ fr[c].op = "exit"

\* C6, amended: a transaction active in context A is not visible in a context B
\* that was created with no transaction registered (a task created inside a
\* scope starts with a copy of its creator's registration); and no step of
\* another context changes B's registration.
C6_IsolatedUnlessInherited ==
    /\ [](\A c \in Ctx, t \in Txns :
            (InScope(t) /\ scope[t].owner # c /\ life[c] # "unborn" /\ inherited[c] = None)
                => Isolated(c, t))
    /\ [][OwnRegistrationOnly]_vars

\* C6 witness: B, created with nothing registered, runs a pooled query on a
\* connection of its own while a transaction is active in A.
C6_Witness ==
    \E t \in Txns :
        /\ InScope(t) /\ scope[t].owner = "A" /\ running["A"] = t
        /\ life["B"] = "run" /\ inherited["B"] = None
        /\ fr["B"].op = "eexec" /\ pc["B"] = "cexec" /\ fr["B"].k # connection[t]

\* C7: an Engine.execute called with a transaction registered runs in that
\* transaction, on a connection the transaction already held: it borrows no
\* connection, opens no standalone connection and issues no commit, whatever
\* in_pool is; called in the body of the transaction's scope, it runs on the
\* connection the scope holds.
C7_RoutedIntoTransaction ==
    \A c \in Ctx :
        fr[c].reg # None
            => /\ fr[c].op = "texec" /\ fr[c].t = fr[c].reg
               /\ fr[c].k # None
               /\ ~fr[c].got /\ ~fr[c].alone /\ fr[c].commits = 0
               /\ fr[c].out = "run" => pc[c] \in {"cexec", "fetch"}
               /\ (fr[c].out = "run" /\ stack[c] # <<>> /\ Top(c) = fr[c].reg)
                      => fr[c].k = connection[fr[c].reg]

\* C7 witness: Engine.execute(in_pool=False) returned inside a scope, the
\* statement having run on the transaction's connection, uncommitted.
C7_Witness ==
    \E c \in Ctx :
        /\ fr[c].reg # None /\ ~fr[c].inpool /\ fr[c].out = "ret"
        /\ stack[c] # <<>> /\ Top(c) = fr[c].reg
        /\ scope[fr[c].reg].stmts = 1 /\ scope[fr[c].reg].nCommit = 0

\* C8: when an error has propagated out of a scope, the rollback or commit was
\* attempted, the connection is back in the pool and the registration cleared.
C8_CleanupBeforeErrorPropagates ==
    \A t \in Txns :
        (scope[t].exitOut = "error" \/ (scope[t].exitOut = "ret" /\ scope[t].exitArg = "error"))
            => /\ scope[t].nCommit + scope[t].nRollback >= 1
               /\ scope[t].returned
               /\ scope[t].restored

\* C9: a task cancelled while it held a borrowed connection (in a scope or in
\* the pooled branch of Engine.execute) has returned it when the cancellation
\* has left the scope or the call.
C9_CancelledTaskReleases ==
    /\ \A t \in Txns :
          ((scope[t].exitArg = "cancel" \/ scope[t].exitOut = "cancel") /\ ExitEnded(t))
              => scope[t].returned
    /\ \A c \in Ctx :
          (fr[c].op = "eexec" /\ fr[c].got /\ fr[c].out = "cancel") => fr[c].put

\* C10: at most one pool is ever constructed, and every caller of
\* create_connection_pool / connection_pool is handed that pool.
C10_OnePool ==
    /\ nPools <= 1
    /\ handed \subseteq {connection_pool} \ {None}

\* C10 witness: one context is still opening the pool it constructed while
\* another one has called create_connection_pool and been handed the pool.
C10_Witness ==
    \E c, d \in Ctx :
        /\ c # d /\ pc[c] = "open"
        /\ fr[d].op = "create" /\ fr[d].out = "ret"
        /\ handed = {1} /\ nPools = 1

\* C11: stop_connection_pool with no pool warns, returns and changes nothing
\* of the engine (no pool is created or closed); with a pool, it closes it with
\* the configured close timeout, 30 when none was configured.
C11_StopWarnsOrClosesWithTimeout ==
    /\ [](\A c \in Ctx :
            /\ (fr[c].op = "stop" /\ fr[c].warned)
                    => fr[c].out = "ret" /\ pc[c] # "close"
            /\ (fr[c].op = "stop" /\ ~fr[c].warned)
                    => closeTimeout = IF close_connection_pool_timeout = Unset
                                      THEN 30 ELSE close_connection_pool_timeout)
    /\ [][\A c \in Ctx :
            (fr'[c] # fr[c] /\ fr'[c].op = "stop" /\ fr'[c].warned)
                => /\ connection_pool = None
                   /\ UNCHANGED <<poolVars, free, running, txnVars, cfgVars, hist>>]_vars

\* C12: an Engine.execute called with no transaction registered and
\* fetch_results=False fetches no rows (its result is None), and when it has
\* ended it has returned to the pool the connection it borrowed: one putconn
\* for its getconn, none without one.
C12_NoFetchNoneAndReturnedOnce ==
    \A c \in Ctx :
        (fr[c].op \in {"eexec", "alone"} /\ fr[c].reg = None /\ ~fr[c].fetch)
            => /\ ~fr[c].rows
               /\ fr[c].put => fr[c].got
               /\ fr[c].out # "run" => (fr[c].put <=> fr[c].got)

\* C13: when the exit of a scope ends, whichever branch it took, the
\* registration of its context is what it was before the scope was entered:
\* the outer transaction after an inner scope, none after an outermost one.
C13_ExitRestoresPreviousRegistration ==
    [][\A t \in Txns :
          (~ExitEnded(t) /\ ExitEnded(t)')
              => running'[scope[t].owner] = scope[t].pre]_vars

\* The same for the exits that return: __aexit__ reached its last line.
C13_ReturningExitRestores ==
    [][\A t \in Txns :
          (~ExitEnded(t) /\ scope'[t].exitOut = "ret")
              => running'[scope[t].owner] = scope[t].pre]_vars

\* The exit of the scope of t begins in this step, in the context that owns it.
ExitBegins(t) == ~ExitBegun(t) /\ ExitBegun(t)'

\* C14: the exit of a scope runs exactly one of three branches, decided by
\* (exception present, commit already run, rollback already run): a rollback
\* iff an exception propagates and no rollback has run; otherwise a commit iff
\* neither has run; otherwise nothing.  After an explicit commit() or
\* rollback() in the body and a normal exit, the exit issues nothing; and once
\* begun, the exit issues nothing more than that one call.
C14_ExitRunsOneBranch ==
    [][\A t \in Txns :
          LET c == scope[t].owner
              e == pc[c] = "unwind"
              committed == is_commit_executed[t]
              rolledback == is_rollback_executed[t]
              doRollback == e /\ ~rolledback
              doCommit == ~doRollback /\ ~committed /\ ~rolledback
          IN  /\ ExitBegins(t)
                    => /\ (pc'[c] = "rollback") <=> doRollback
                       /\ (pc'[c] = "commit") <=> doCommit
                       /\ scope'[t].nRollback = scope[t].nRollback + (IF doRollback THEN 1 ELSE 0)
                       /\ scope'[t].nCommit = scope[t].nCommit + (IF doCommit THEN 1 ELSE 0)
                       /\ (scope[t].explicit /\ ~e)
                              => /\ pc'[c] \notin {"rollback", "commit"}
                                 /\ scope'[t].nRollback = scope[t].nRollback
                                 /\ scope'[t].nCommit = scope[t].nCommit
              /\ (ExitBegun(t) /\ ExitBegun(t)')
                    => /\ scope'[t].nRollback = scope[t].nRollback
                       /\ scope'[t].nCommit = scope[t].nCommit]_vars

\* C14 witness: a scope whose body called rollback() has exited normally, and
\* the one rollback is all that was issued on its connection.
C14_Witness ==
    \E t \in Txns :
        /\ scope[t].explicit /\ scope[t].exitArg = "none" /\ scope[t].exitOut = "ret"
        /\ scope[t].nRollback = 1 /\ scope[t].nCommit = 0
        /\ is_rollback_executed[t] /\ ~is_commit_executed[t]

\* C15: no caller is handed the pool before its open() has completed, and a
\* pool whose open() failed is not kept as the engine's pool.
C15_PoolOpenedBeforeHanded ==
    /\ \A c \in Ctx : fr[c].pstate # "new"
    /\ (connection_pool # None /\ poolState = "new") => \E c \in Ctx : pc[c] = "open"

\* C16: a transaction object borrows at most one connection from the pool in
\* its life, returns no more than it borrowed, and has returned what it
\* borrowed when the exit of its scope has returned.
C16_OneConnectionPerTransaction ==
    \A t \in Txns :
        /\ hist[t].gets <= 1
        /\ hist[t].puts <= hist[t].gets
        /\ scope[t].exitOut = "ret" => hist[t].puts = hist[t].gets

\* The state of a transaction: Inactive until its scope is entered, Active
\* while it is registered and its scope has not ended, Closed afterwards.
TxnState(t) ==
    IF scope[t].owner = "-" THEN "Inactive"
    ELSE IF ExitEnded(t) THEN "Closed" ELSE "Active"

\* C17: a transaction only moves Inactive -> Active -> Closed: a Closed one
\* stays Closed, no transaction object is entered twice, and a scope never
\* starts with a flag already set.
C17_ClosedStaysClosed ==
    /\ [](\A t \in Txns : hist[t].enters <= 1)
    /\ [][\A t \in Txns :
            /\ TxnState(t) = "Closed" => TxnState(t)' = "Closed"
            /\ TxnState(t) = "Active" => TxnState(t)' \in {"Active", "Closed"}
            /\ (TxnState(t) # "Active" /\ TxnState(t)' = "Active")
                    => ~is_commit_executed[t] /\ ~is_rollback_executed[t]]_vars

\* A statement, commit or rollback of c is in flight on a pooled connection.
InFlight(c) ==
    /\ pc[c] \in {"cexec", "fetch", "commit", "rollback"}
    /\ fr[c].op # "alone"
    /\ fr[c].k # None

\* C18: nothing is in flight on a connection that is idle in the pool, what is
\* in flight on the connection of an active transaction belongs to that
\* transaction, and two calls that are not of one transaction are never in
\* flight on one connection.
C18_NoUseAfterReturn ==
    /\ \A c \in Ctx : InFlight(c) => fr[c].k \notin free
    /\ \A c \in Ctx, t \in Txns :
          (InFlight(c) /\ TxnState(t) = "Active" /\ connection[t] = fr[c].k)
              => fr[c].t = t
    /\ \A c, d \in Ctx :
          (c # d /\ InFlight(c) /\ InFlight(d) /\ fr[c].k = fr[d].k)
              => fr[c].t # None /\ fr[c].t = fr[d].t

\* C19: no caller of create_connection_pool / connection_pool (Engine.execute,
\* scope entry and exit, Transaction.execute) is handed a pool that
\* stop_connection_pool has closed.
C19_NoClosedPoolHandedOut ==
    \A c \in Ctx : fr[c].pstate # "closed"

====
